---- MODULE Spec2Model ----
(***************************************************************************)
(* A model of src/app.py: the "Researcher Pro" Streamlit feed.  The model  *)
(* covers the link resolver get_paper_url, the inverted-index decoder      *)
(* decode_abstract, the cached fetch fetch_guaranteed_data_v4 and the      *)
(* script body main (keyword filter and card rendering loop).              *)
(*                                                                         *)
(* Python values are modelled as follows.                                  *)
(*   - str            : a TLA+ string                                      *)
(*   - list           : a sequence                                         *)
(*   - dict           : a sequence of <<key, value>> pairs with distinct   *)
(*                      keys, in insertion (= iteration) order             *)
(*   - a JSON field   : a tagged record [t |-> tag, v |-> value], where    *)
(*                      the tag "absent" stands for a key the dict lacks   *)
(*                      and "None" for a JSON null                         *)
(***************************************************************************)
EXTENDS Integers, Sequences, FiniteSets, TLC

VARIABLES
    \* decoder harness (decode_abstract as a pure function)
    dpc, text, inverted_index, abs_text,
    \* link-resolver harness (get_paper_url as a pure function)
    upc, paper, correct_url,
    \* the Streamlit script: widget state, the st.cache_data cache of
    \* fetch_guaranteed_data_v4, the requests of the running fetch, the locals
    \* of main, the cards rendered so far and the exception that ended the run
    pc, selected, kw, cache, requests, all_papers, papers, rendered, error

dvars == <<dpc, text, inverted_index, abs_text>>
uvars == <<upc, paper, correct_url>>
mvars == <<pc, selected, kw, cache, requests, all_papers, papers, rendered, error>>
vars == <<dvars, uvars, mvars>>

-----------------------------------------------------------------------------
(* Bounds of the model *)

\* longest text, in words, that is encoded and decoded
MaxWords == 3
\* positions listed in a hand-built inverted index range over 0..MaxPos
MaxPos == 2
\* longest position list of one token of a hand-built inverted index
MaxPosList == 2
\* most records in one upstream response
MaxResults == 2

-----------------------------------------------------------------------------
(* Generic helpers: Python built-ins used by the code *)

Range(s) == {s[i] : i \in 1..Len(s)}

SeqsUpTo(S, n) == UNION {[1..k -> S] : k \in 0..n}

\* sep.join(parts)
RECURSIVE Join(_, _)
Join(parts, sep) ==
    IF parts = <<>> THEN ""
    ELSE IF Len(parts) = 1 THEN parts[1]
    ELSE parts[1] \o sep \o Join(Tail(parts), sep)

\* sorted(keys) for a set of integers: ascending
RECURSIVE sorted(_)
sorted(S) ==
    IF S = {} THEN <<>>
    ELSE LET m == CHOOSE x \in S : \A y \in S : x <= y
         IN  <<m>> \o sorted(S \ {m})

\* tagged JSON values
Absent == [t |-> "absent", v |-> <<>>]
None == [t |-> "None", v |-> <<>>]
Dict(items) == [t |-> "dict", v |-> items]

\* Python truthiness of a dict-or-None value: `not x` is true for None, {}
Falsy(x) == x.t \in {"absent", "None"} \/ x.v = <<>>

-----------------------------------------------------------------------------
(* decode_abstract, src/app.py lines 107-112 *)

NoAbstractText == "No abstract text provided for this entry."

\* a variant of the store that keeps the first token put at a position
SetItemKeepFirst(word_map, pos, word) ==
    [p \in (DOMAIN word_map) \cup {pos} |->
        IF p \in DOMAIN word_map THEN word_map[p] ELSE word]

\* word_map[pos] = word
SetItem(word_map, pos, word) ==
    [p \in (DOMAIN word_map) \cup {pos} |-> IF p = pos THEN word ELSE word_map[p]]

\* a variant of the inner loop that records only the first position of a word
AssignFirstPosition(word_map, word, pos_list) ==
    IF pos_list = <<>> THEN word_map ELSE SetItem(word_map, pos_list[1], word)

\* for pos in pos_list: word_map[pos] = word
RECURSIVE AssignPositions(_, _, _)
AssignPositions(word_map, word, pos_list) ==
    IF pos_list = <<>> THEN word_map
    ELSE AssignPositions(SetItem(word_map, pos_list[1], word), word, Tail(pos_list))

\* for word, pos_list in inverted_index.items(): ...
RECURSIVE BuildWordMap(_, _)
BuildWordMap(word_map, items) ==
    IF items = <<>> THEN word_map
    ELSE BuildWordMap(AssignPositions(word_map, items[1][1], items[1][2]), Tail(items))

EmptyMap == [p \in {} |-> ""]

decode_abstract(index) ==
    IF Falsy(index) THEN NoAbstractText
    ELSE LET word_map == BuildWordMap(EmptyMap, index.v)
             keys == sorted(DOMAIN word_map)
         IN  Join([i \in 1..Len(keys) |-> word_map[keys[i]]], " ")

-----------------------------------------------------------------------------
(* The upstream encoding of an abstract: word -> list of zero-based word   *)
(* positions, keys in order of first occurrence.                           *)

\* text.split(" ")
RECURSIVE Split(_)
Split(s) ==
    IF \A i \in 1..Len(s) : SubSeq(s, i, i) # " " THEN <<s>>
    ELSE LET k == CHOOSE i \in 1..Len(s) :
                      SubSeq(s, i, i) = " " /\ \A j \in 1..(i - 1) : SubSeq(s, j, j) # " "
         IN  <<SubSeq(s, 1, k - 1)>> \o Split(SubSeq(s, k + 1, Len(s)))

DictHas(items, key) == \E i \in 1..Len(items) : items[i][1] = key

\* index.setdefault(word, []).append(pos)
AppendPos(items, word, pos) ==
    IF DictHas(items, word)
    THEN [i \in 1..Len(items) |->
            IF items[i][1] = word THEN <<word, Append(items[i][2], pos)>> ELSE items[i]]
    ELSE Append(items, <<word, <<pos>>>>)

RECURSIVE EncodeWords(_, _, _)
EncodeWords(items, words, pos) ==
    IF words = <<>> THEN items
    ELSE EncodeWords(AppendPos(items, words[1], pos), Tail(words), pos + 1)

encode(t) == Dict(EncodeWords(<<>>, Split(t), 0))

-----------------------------------------------------------------------------
(* Raw upstream records (the JSON objects of the 'results' list) *)

\* JSON string fields
AbsentS == [t |-> "absent", v |-> ""]
NoneS == [t |-> "None", v |-> ""]
Str(x) == [t |-> "str", v |-> x]
\* exceptions raised while a value is computed
Raised(exc) == [t |-> exc, v |-> ""]
IsRaised(x) == x.t \in {"AttributeError", "KeyError", "TypeError"}

\* bool(x) for a string-or-None value
TruthyS(x) == x.t = "str" /\ x.v # ""

\* d.get(key): a missing key reads as None
GetS(field) == IF field.t = "absent" THEN NoneS ELSE field
\* d.get(key, default)
GetDefault(field, default) == IF field.t = "absent" THEN default ELSE field

\* s.startswith(prefix)
startswith(s, prefix) ==
    Len(s) >= Len(prefix) /\ SubSeq(s, 1, Len(prefix)) = prefix

\* the 'open_access' object: is_oa is "absent", "None", "False" or "True"
OpenAccess(is_oa, oa_url) == [t |-> "dict", is_oa |-> is_oa, oa_url |-> oa_url]
AbsentOA == [t |-> "absent", is_oa |-> "absent", oa_url |-> AbsentS]
NoneOA == [t |-> "None", is_oa |-> "absent", oa_url |-> AbsentS]

\* the 'primary_location' object
Location(landing_page_url) == [t |-> "dict", landing_page_url |-> landing_page_url]
AbsentLocation == [t |-> "absent", landing_page_url |-> AbsentS]
NoneLocation == [t |-> "None", landing_page_url |-> AbsentS]

\* the fields of a raw record that the code reads and the model follows
RawRecord(id, doi, display_name, index, open_access, primary_location) ==
    [id |-> id, doi |-> doi, display_name |-> display_name,
     abstract_inverted_index |-> index,
     open_access |-> open_access, primary_location |-> primary_location]

BareDoi == "10.1093/geront/gnab001"
OaUrl == "https://oa.example.org/gnab001.pdf"
LandingUrl == "https://academic.example.com/gnab001"

-----------------------------------------------------------------------------
(* get_paper_url, src/app.py lines 81-94 *)

DoiLink(doi) == IF startswith(doi, "http") THEN doi ELSE "https://doi.org/" \o doi

\* lines 93-94: p.get('primary_location', {}).get('landing_page_url', '#')
LandingPage(p) ==
    IF p.primary_location.t = "None" THEN Raised("AttributeError")
    ELSE IF p.primary_location.t = "absent" THEN Str("#")
    ELSE GetDefault(p.primary_location.landing_page_url, Str("#"))

\* lines 88-91: the open-access link, when the record is open access and has one
HasOaUrl(p) ==
    /\ p.open_access.t = "dict"
    /\ p.open_access.is_oa = "True"
    /\ TruthyS(p.open_access.oa_url)

\* a variant that prefers the open-access link to the DOI link
get_paper_url_oa_first(p) ==
    IF p.open_access.t = "None" THEN Raised("AttributeError")
    ELSE IF HasOaUrl(p) THEN p.open_access.oa_url
    ELSE IF TruthyS(GetS(p.doi)) THEN Str(DoiLink(p.doi.v))
    ELSE LandingPage(p)

get_paper_url(p) ==
    IF TruthyS(GetS(p.doi)) THEN Str(DoiLink(p.doi.v))
    ELSE IF p.open_access.t = "None" THEN Raised("AttributeError")
    ELSE IF HasOaUrl(p) THEN p.open_access.oa_url
    ELSE LandingPage(p)

-----------------------------------------------------------------------------
(* String built-ins used by the keyword filter of main, line 174 *)

UpperCase == "ABCDEFGHIJKLMNOPQRSTUVWXYZ"
LowerCase == "abcdefghijklmnopqrstuvwxyz"
Digits == "0123456789"

LowerChar(c) ==
    IF \E i \in 1..Len(UpperCase) : SubSeq(UpperCase, i, i) = c
    THEN LET i == CHOOSE i \in 1..Len(UpperCase) : SubSeq(UpperCase, i, i) = c
         IN  SubSeq(LowerCase, i, i)
    ELSE c

\* s.lower()
RECURSIVE lower(_)
lower(s) ==
    IF s = "" THEN "" ELSE LowerChar(SubSeq(s, 1, 1)) \o lower(SubSeq(s, 2, Len(s)))

\* sub in s
Contains(sub, s) ==
    \E i \in 0..(Len(s) - Len(sub)) : SubSeq(s, i + 1, i + Len(sub)) = sub

\* str(n) for a non-negative integer
RECURSIVE IntStr(_)
IntStr(n) ==
    IF n < 10 THEN SubSeq(Digits, n + 1, n + 1)
    ELSE IntStr(n \div 10) \o SubSeq(Digits, (n % 10) + 1, (n % 10) + 1)

\* str(pos_list): "[0, 2]"
ListStr(pos_list) ==
    "[" \o Join([i \in 1..Len(pos_list) |-> IntStr(pos_list[i])], ", ") \o "]"

\* str(index) for a dict: "{'a': [0, 2], 'of': [1]}"
DictStr(items) ==
    "{" \o Join([i \in 1..Len(items) |->
                    "'" \o items[i][1] \o "': " \o ListStr(items[i][2])], ", ") \o "}"

\* str(p.get('abstract_inverted_index', ''))
IndexStr(index) ==
    IF index.t = "absent" THEN ""
    ELSE IF index.t = "None" THEN "None"
    ELSE DictStr(index.v)

-----------------------------------------------------------------------------
(* The keyword filter of main, src/app.py line 174 *)

\* the condition of the comprehension for one record: "keep", "drop", or the
\* exception p['display_name'].lower() raises
FilterTest(p, keyword) ==
    IF p.display_name.t = "absent" THEN "KeyError"
    ELSE IF p.display_name.t = "None" THEN "AttributeError"
    ELSE IF \/ Contains(lower(keyword), lower(p.display_name.v))
            \/ Contains(lower(keyword), lower(IndexStr(p.abstract_inverted_index)))
         THEN "keep"
         ELSE "drop"

List(xs) == [t |-> "list", v |-> xs]
RaisedList(exc) == [t |-> exc, v |-> <<>>]

\* [p for p in all_papers if ...]: the first exception ends the comprehension
RECURSIVE Comprehension(_, _, _)
Comprehension(kept, rest, keyword) ==
    IF rest = <<>> THEN List(kept)
    ELSE LET r == FilterTest(rest[1], keyword)
         IN  IF r = "keep" THEN Comprehension(Append(kept, rest[1]), Tail(rest), keyword)
             ELSE IF r = "drop" THEN Comprehension(kept, Tail(rest), keyword)
             ELSE RaisedList(r)

\* a variant of the filter that also drops the records that carry no 'id'
FilterPapersDropNoId(fetched, keyword) ==
    IF keyword # "" THEN Comprehension(<<>>, fetched, keyword)
    ELSE List(SelectSeq(fetched, LAMBDA r : r.id.t = "str"))

\* papers = [...] if kw else all_papers
FilterPapers(fetched, keyword) ==
    IF keyword # "" THEN Comprehension(<<>>, fetched, keyword) ELSE List(fetched)

-----------------------------------------------------------------------------
(* The body of the rendering loop of main, src/app.py lines 179-221 *)

\* title = p.get('display_name', 'Untitled Article')
Title(p) == GetDefault(p.display_name, Str("Untitled Article"))

\* get_topic_tags(title, abstract), line 98: title + " " + abstract raises
\* TypeError for a None title
TopicTagsRaise(title) == title.t = "None"

NoCard == [t |-> "card", p |-> <<>>, title |-> NoneS, correct_url |-> NoneS, abs_text |-> ""]

\* the card of one record, or the exception that rendering it raises
RenderCard(p) ==
    LET url == get_paper_url(p)
        abstract == decode_abstract(GetDefault(p.abstract_inverted_index, None))
    IN  IF IsRaised(url) THEN [NoCard EXCEPT !.t = url.t]
        ELSE IF TopicTagsRaise(Title(p)) THEN [NoCard EXCEPT !.t = "TypeError"]
        ELSE [t |-> "card", p |-> <<p>>, title |-> Title(p),
              correct_url |-> url, abs_text |-> abstract]

-----------------------------------------------------------------------------
(* fetch_guaranteed_data_v4, src/app.py lines 114-140 *)

options == <<"The Gerontologist", "Health & Place", "Landscape & Urban Planning",
             "Age and Ageing", "J of Aging and Env">>

journal_db ==
    [n \in Range(options) |->
        CASE n = "The Gerontologist" -> "S151833132"
          [] n = "Health & Place" -> "S108842106"
          [] n = "Landscape & Urban Planning" -> "S162319083"
          [] n = "Age and Ageing" -> "S169624507"
          [] n = "J of Aging and Env" -> "S4210214227"]

\* selected_ids = [journal_db[n] for n in journal_names if n in journal_db]
selected_ids(journal_names) ==
    LET known == SelectSeq(journal_names, LAMBDA n : n \in DOMAIN journal_db)
    IN  [i \in 1..Len(known) |-> journal_db[known[i]]]

\* what requests.get(...) can do: raise (no connection, timeout), or answer
\* with a status code and a body that is not JSON, JSON without 'results',
\* or JSON with a 'results' list
Exception == [kind |-> "exception", status_code |-> 0, body |-> "", results |-> <<>>]
Response(status_code, body, results) ==
    [kind |-> "response", status_code |-> status_code, body |-> body, results |-> results]

\* r.json().get('results', []): the list, or the exception of r.json()
JsonResults(r) ==
    IF r.body = "not json" THEN RaisedList("JSONDecodeError")
    ELSE IF r.body = "no results" THEN List(<<>>)
    ELSE List(r.results)

\* lines 131-136: the value the try block returns, or "fall through" when the
\* request raised, the status is not 200 or r.json() raised
PrimaryOutcome(r) ==
    IF r.kind = "exception" THEN RaisedList("fall through")
    ELSE IF r.status_code # 200 THEN RaisedList("fall through")
    ELSE IF JsonResults(r).t # "list" THEN RaisedList("fall through")
    ELSE JsonResults(r)

\* line 140: requests.get(fallback).json().get('results', []), outside any try
FallbackOutcome(r) ==
    IF r.kind = "exception" THEN RaisedList("ConnectionError")
    ELSE JsonResults(r)

\* the st.cache_data entry of one argument value
Miss == [hit |-> FALSE, value |-> <<>>]
Hit(value) == [hit |-> TRUE, value |-> value]

\* what the log of the running call keeps of a request
Request(url, outcome) ==
    [url |-> url,
     outcome |-> IF outcome.t = "list" THEN "results" ELSE outcome.t,
     count |-> Len(outcome.v)]

-----------------------------------------------------------------------------
(* Inputs of the script: upstream records, widget values, responses *)

Paper1 == RawRecord(Str("W1"), Str(BareDoi), Str("Urban Aging"),
                    Dict(<<<<"Smart", <<0>>>>, <<"city", <<1>>>>>>),
                    OpenAccess("True", Str(OaUrl)), Location(Str(LandingUrl)))
\* no DOI, no abstract (JSON nulls)
Paper2 == RawRecord(Str("W2"), NoneS, Str("Dementia care"), None,
                    OpenAccess("False", NoneS), Location(Str(LandingUrl)))
\* no identifier at all: neither 'id' nor 'doi'
Paper3 == RawRecord(AbsentS, AbsentS, Str("Health policy"), Absent,
                    AbsentOA, AbsentLocation)
\* a null title
Paper4 == RawRecord(Str("W4"), Str("https://doi.org/10.1016/j.x.2024.1"), NoneS,
                    Dict(<<<<"city", <<0>>>>>>),
                    OpenAccess("False", NoneS), Location(NoneS))

Samples == {Paper1, Paper2, Paper3, Paper4}
ResultLists == SeqsUpTo(Samples, MaxResults)

Responses ==
    {Exception} \cup
    {Response(c, b, <<>>) : c \in {200, 503}, b \in {"not json", "no results"}} \cup
    {Response(c, "results", rs) : c \in {200, 503}, rs \in ResultLists}

\* the multiselect values the model follows: nothing, or the default options[:3]
DefaultSelection == SubSeq(options, 1, 3)
Selections == {<<>>, DefaultSelection}

Keywords == {"", "Aging", "city", "none"}

-----------------------------------------------------------------------------
(* Values of the parts of the state a specification does not use *)

NoText == "<none>"
Unset == "<unset>"
NoPaper == RawRecord(AbsentS, AbsentS, AbsentS, Absent, AbsentOA, AbsentLocation)

DecoderOff ==
    /\ dpc = "off"
    /\ text = NoText
    /\ inverted_index = None
    /\ abs_text = Unset

ResolverOff ==
    /\ upc = "off"
    /\ paper = NoPaper
    /\ correct_url = NoneS

ScriptOff ==
    /\ pc = "off"
    /\ selected = <<>>
    /\ kw = ""
    /\ cache = [s \in Selections |-> Miss]
    /\ requests = <<>>
    /\ all_papers = <<>>
    /\ papers = <<>>
    /\ rendered = <<>>
    /\ error = ""

-----------------------------------------------------------------------------
(* Link-resolver harness: one raw record is resolved. *)

DoiValues == {AbsentS, NoneS, Str(""), Str(BareDoi), Str("https://doi.org/" \o BareDoi)}
OaUrlValues == {AbsentS, NoneS, Str(""), Str(OaUrl)}
OpenAccessValues ==
    {AbsentOA, NoneOA} \cup
    {OpenAccess(b, u) : b \in {"absent", "None", "False", "True"}, u \in OaUrlValues}
LocationValues ==
    {AbsentLocation, NoneLocation} \cup
    {Location(u) : u \in {AbsentS, NoneS, Str(LandingUrl)}}

UrlRecords ==
    {RawRecord(Str("W1"), d, Str("Urban aging"), None, oa, loc) :
        d \in DoiValues, oa \in OpenAccessValues, loc \in LocationValues}

UrlInit ==
    /\ DecoderOff
    /\ ScriptOff
    /\ upc = "record"
    /\ paper \in UrlRecords
    /\ correct_url = NoneS

\* correct_url = get_paper_url(p)
Resolve ==
    /\ upc = "record"
    /\ correct_url' = get_paper_url(paper)
    /\ upc' = "resolved"
    /\ UNCHANGED <<paper, dvars, mvars>>

UrlNext == Resolve

SpecUrl == UrlInit /\ [][UrlNext]_vars

-----------------------------------------------------------------------------
(* Claims about get_paper_url *)

HasDoi(p) == p.doi.t = "str" /\ p.doi.v # ""
HasLanding(p) ==
    p.primary_location.t = "dict" /\ p.primary_location.landing_page_url.t = "str"
\* open_access and primary_location are mappings or missing, never null
WellFormed(p) == p.open_access.t # "None" /\ p.primary_location.t # "None"

-----------------------------------------------------------------------------
(* Decoder harness: a text is encoded and decoded, or an index is decoded. *)

Words == {"a", "b", "of"}

\* texts of 1..MaxWords words separated by single spaces
Texts == {Join(ws, " ") : ws \in (SeqsUpTo(Words, MaxWords) \ {<<>>})}

PosLists == SeqsUpTo(0..MaxPos, MaxPosList)

\* the tokens of the hand-built indexes, and the orders of their keys: a
\* dict holds each key once
IndexWords == {"a", "b"}
KeyOrders == {ks \in SeqsUpTo(IndexWords, Cardinality(IndexWords)) :
                 \A i, j \in 1..Len(ks) : i # j => ks[i] # ks[j]}

Indexes ==
    UNION {{[i \in 1..Len(ks) |-> <<ks[i], pl[i]>>] : pl \in [1..Len(ks) -> PosLists]}
           : ks \in KeyOrders}

DecodeInit ==
    /\ ResolverOff
    /\ ScriptOff
    /\ abs_text = Unset
    /\ \/ /\ dpc = "text"
          /\ text \in Texts
          /\ inverted_index = None
       \/ /\ dpc = "index"
          /\ text = NoText
          /\ inverted_index \in {None} \cup {Dict(items) : items \in Indexes}

\* the upstream API encodes the abstract text
Encode ==
    /\ dpc = "text"
    /\ inverted_index' = encode(text)
    /\ dpc' = "index"
    /\ UNCHANGED <<text, abs_text, uvars, mvars>>

\* abs_text = decode_abstract(p.get('abstract_inverted_index'))
Decode ==
    /\ dpc = "index"
    /\ abs_text' = decode_abstract(inverted_index)
    /\ dpc' = "decoded"
    /\ UNCHANGED <<text, inverted_index, uvars, mvars>>

DecodeNext == Encode \/ Decode

SpecDecode == DecodeInit /\ [][DecodeNext]_vars

-----------------------------------------------------------------------------
(* Claims about decode_abstract *)

\* C1: decoding the inverted index built from a text of one or more
\* space-separated words returns exactly that text.
DecodeIsLeftInverse ==
    (dpc = "decoded" /\ text # NoText) => abs_text = text

\* a text with a repeated word has been encoded and decoded
DecodeIsLeftInverseWitness ==
    /\ dpc = "decoded"
    /\ text = "a of a"
    /\ inverted_index = Dict(<<<<"a", <<0, 2>>>>, <<"of", <<1>>>>>>)

\* C2: for an empty or absent index decode_abstract returns the empty string.
DecodeEmptyReturnsEmptyString ==
    (dpc = "decoded" /\ Falsy(inverted_index)) => abs_text = ""

\* the positions an index lists, and the k-th smallest of them
PositionsOf(items) == UNION {Range(items[i][2]) : i \in 1..Len(items)}
KthPosition(P, k) == CHOOSE p \in P : Cardinality({q \in P : q < p}) = k - 1
\* the token of the last entry, in iteration order, that lists position p
LastTokenAt(items, p) ==
    LET i == CHOOSE i \in 1..Len(items) :
                 /\ p \in Range(items[i][2])
                 /\ \A j \in (i + 1)..Len(items) : p \notin Range(items[j][2])
    IN  items[i][1]

\* C10: for a non-empty index, well-formed or not, the decoded text holds one
\* token per distinct position, in ascending position order, and the token of
\* a position is that of the last entry listing it.
DecodeLastTokenWins ==
    (dpc = "decoded" /\ ~Falsy(inverted_index)) =>
        LET items == inverted_index.v
            P == PositionsOf(items)
        IN  abs_text = Join([k \in 1..Cardinality(P) |->
                                LastTokenAt(items, KthPosition(P, k))], " ")

\* a malformed index, position 0 listed under two tokens, has been decoded
DecodeLastTokenWinsWitness ==
    /\ dpc = "decoded"
    /\ inverted_index = Dict(<<<<"a", <<0, 1>>>>, <<"b", <<0>>>>>>)
    /\ abs_text = "b a"

-----------------------------------------------------------------------------
(* The Streamlit script: main, src/app.py lines 146-221.  Streamlit runs    *)
(* the script from the top on every widget interaction; pc is the position *)
(* of the running script ("fetch", "fallback", "filter", "render"), "done" *)
(* when it has ended; error names the exception that ended it, if any.     *)

ScriptInit ==
    /\ DecoderOff
    /\ ResolverOff
    /\ pc = "fetch"
    /\ selected = DefaultSelection
    /\ kw = ""
    /\ cache = [s \in Selections |-> Miss]
    /\ requests = <<>>
    /\ all_papers = <<>>
    /\ papers = <<>>
    /\ rendered = <<>>
    /\ error = ""

\* no script is running: the last run ended or raised
Idle == pc = "done" \/ error # ""

\* the script starts from the top with the given widget values and cache
StartRun(journal_names, keyword, entries) ==
    /\ pc' = "fetch"
    /\ selected' = journal_names
    /\ kw' = keyword
    /\ cache' = entries
    /\ requests' = <<>>
    /\ all_papers' = <<>>
    /\ papers' = <<>>
    /\ rendered' = <<>>
    /\ error' = ""
    /\ UNCHANGED <<dvars, uvars>>

\* lines 155, 158: the user changes the multiselect or the keyword box
Rerun ==
    /\ Idle
    /\ \E journal_names \in Selections, keyword \in Keywords :
           StartRun(journal_names, keyword, cache)

\* lines 161-163: the "force sync" button clears the cache and reruns
ForceSync ==
    /\ Idle
    /\ StartRun(selected, kw, [s \in Selections |-> Miss])

\* line 114: a cache entry older than ttl=1200 seconds is dropped
CacheExpire ==
    /\ \E s \in Selections :
           /\ cache[s].hit
           /\ cache' = [cache EXCEPT ![s] = Miss]
    /\ UNCHANGED <<pc, selected, kw, requests, all_papers, papers, rendered, error>>
    /\ UNCHANGED <<dvars, uvars>>

\* line 171, cache hit: the cached list is returned, no request is made
FetchCached ==
    /\ pc = "fetch" /\ error = ""
    /\ cache[selected].hit
    /\ all_papers' = cache[selected].value
    /\ pc' = "filter"
    /\ UNCHANGED <<selected, kw, cache, requests, papers, rendered, error>>
    /\ UNCHANGED <<dvars, uvars>>

\* lines 124-125: no known journal is selected, [] is returned (and cached)
FetchNoSources ==
    /\ pc = "fetch" /\ error = ""
    /\ ~cache[selected].hit
    /\ selected_ids(selected) = <<>>
    /\ all_papers' = <<>>
    /\ cache' = [cache EXCEPT ![selected] = Hit(<<>>)]
    /\ pc' = "filter"
    /\ UNCHANGED <<selected, kw, requests, papers, rendered, error>>
    /\ UNCHANGED <<dvars, uvars>>

\* lines 127-136: the source-filtered request
PrimaryRequest ==
    /\ pc = "fetch" /\ error = ""
    /\ ~cache[selected].hit
    /\ selected_ids(selected) # <<>>
    /\ \E r \in Responses :
           LET out == PrimaryOutcome(r)
           IN  /\ requests' = Append(requests, Request("primary", out))
               /\ IF out.t = "list"
                  THEN /\ all_papers' = out.v
                       /\ cache' = [cache EXCEPT ![selected] = Hit(out.v)]
                       /\ pc' = "filter"
                  ELSE /\ pc' = "fallback"
                       /\ UNCHANGED <<all_papers, cache>>
    /\ UNCHANGED <<selected, kw, papers, rendered, error>>
    /\ UNCHANGED <<dvars, uvars>>

\* lines 139-140: the keyword request
FallbackRequest ==
    /\ pc = "fallback" /\ error = ""
    /\ \E r \in Responses :
           LET out == FallbackOutcome(r)
           IN  /\ requests' = Append(requests, Request("fallback", out))
               /\ IF out.t = "list"
                  THEN /\ all_papers' = out.v
                       /\ cache' = [cache EXCEPT ![selected] = Hit(out.v)]
                       /\ pc' = "filter"
                       /\ error' = ""
                  ELSE /\ error' = out.t
                       /\ UNCHANGED <<all_papers, cache, pc>>
    /\ UNCHANGED <<selected, kw, papers, rendered>>
    /\ UNCHANGED <<dvars, uvars>>

\* lines 174-177: the keyword filter, and the notice for an empty feed
Filter ==
    /\ pc = "filter" /\ error = ""
    /\ LET f == FilterPapers(all_papers, kw)
       IN  IF f.t = "list"
           THEN /\ papers' = f.v
                /\ pc' = IF f.v = <<>> THEN "done" ELSE "render"
                /\ error' = ""
           ELSE /\ error' = f.t
                /\ UNCHANGED <<papers, pc>>
    /\ UNCHANGED <<selected, kw, cache, requests, all_papers, rendered>>
    /\ UNCHANGED <<dvars, uvars>>

\* lines 179-221: one iteration of the rendering loop
Render ==
    /\ pc = "render" /\ error = ""
    /\ LET card == RenderCard(papers[Len(rendered) + 1])
       IN  IF card.t = "card"
           THEN /\ rendered' = Append(rendered, card)
                /\ pc' = IF Len(rendered) + 1 = Len(papers) THEN "done" ELSE "render"
                /\ error' = ""
           ELSE /\ error' = card.t
                /\ UNCHANGED <<rendered, pc>>
    /\ UNCHANGED <<selected, kw, cache, requests, all_papers, papers>>
    /\ UNCHANGED <<dvars, uvars>>

Next ==
    \/ Rerun
    \/ ForceSync
    \/ CacheExpire
    \/ FetchCached
    \/ FetchNoSources
    \/ PrimaryRequest
    \/ FallbackRequest
    \/ Filter
    \/ Render

Spec == ScriptInit /\ [][Next]_vars

-----------------------------------------------------------------------------
(* Claims about the fetch and the script *)

Fetched == error = "" /\ pc \in {"filter", "render", "done"}
Filtered == error = "" /\ pc \in {"render", "done"}
RenderedRecords == [i \in 1..Len(rendered) |-> rendered[i].p[1]]

\* C4: when the primary request succeeds with zero results, the fallback
\* keyword request is issued as well.
FallbackOnEmpty ==
    (/\ Fetched
     /\ requests # <<>>
     /\ requests[1].url = "primary"
     /\ requests[1].outcome = "results"
     /\ requests[1].count = 0)
        => \E i \in 1..Len(requests) : requests[i].url = "fallback"

\* C5: no outcome of the upstream requests ends the script with an error.
NoFetchFailureIsFatal ==
    ~(pc \in {"fetch", "fallback"} /\ error # "")

\* a record with neither an 'id' nor a 'doi'
HasIdentifier(p) == TruthyS(GetS(p.id)) \/ TruthyS(GetS(p.doi))

\* C6: a record without a usable identifier is never among the rendered ones.
NoIdentifierNeverRendered ==
    \A i \in 1..Len(rendered) : HasIdentifier(RenderedRecords[i])

\* C7: the identifiers of the records of the corpus are pairwise distinct
\* (records that carry no 'id' are left out of the comparison).
NoDuplicateIds ==
    Fetched =>
        \A i, j \in 1..Len(all_papers) :
            (i # j /\ all_papers[i].id.t = "str" /\ all_papers[j].id.t = "str")
                => all_papers[i].id # all_papers[j].id

TitleOrAbstractWordContains(p, keyword) ==
    \/ /\ p.display_name.t = "str"
       /\ Contains(lower(keyword), lower(p.display_name.v))
    \/ /\ p.abstract_inverted_index.t = "dict"
       /\ \E i \in 1..Len(p.abstract_inverted_index.v) :
              Contains(lower(keyword), lower(p.abstract_inverted_index.v[i][1]))

\* C9: with a non-empty keyword the filter never raises and keeps, in order,
\* exactly the records whose title or abstract words contain the keyword.
KeywordFilterExact ==
    kw # "" =>
        /\ ~(pc = "filter" /\ error # "")
        /\ Filtered =>
               papers = SelectSeq(all_papers,
                                  LAMBDA r : TitleOrAbstractWordContains(r, kw))

====
